---- MODULE Spec2Model ----
(***************************************************************************)
(* Model of audio_sync_improved.py: a linear pipeline that scans up to     *)
(* three roots for audio files, builds a content-hash index of the files   *)
(* whose path string starts with the master argument, classifies every     *)
(* file and writes the reports.                                            *)
(*                                                                         *)
(* Python strings are sequences of one-character strings, so that          *)
(* str.startswith, str(Path(..)), Path.suffix and str.lower are computed   *)
(* as the interpreter computes them.  Python's None and the empty string   *)
(* are both the empty sequence: the code only tests their truthiness.      *)
(* An optional number is <<>> (None) or <<n>>.                             *)
(* The file system does not change while the program runs.                 *)
(***************************************************************************)
EXTENDS Integers, Sequences, FiniteSets, TLC

VARIABLES
    argv,           \* sys.argv[1:], a sequence of path strings
    fs,             \* the attributes of the file system under test that vary
    pc,             \* position of main()
    all_files,      \* list of path strings appended by scan_folder
    errors,         \* list of scan errors
    master_hashes,  \* dict: hash -> path
    hash_errors,    \* list of paths whose hashing failed
    detailed,       \* list of report entries
    summary,        \* dict: format -> count
    i,              \* index of the file the current loop is at
    report,         \* what the report files hold, once written
    rk_ext,         \* compute_quality_rank harness: the extension
    rk_bitrate,     \*   the bitrate (optional)
    rk_result       \*   the returned rank, <<>> before the call

vars == <<argv, fs, pc, all_files, errors, master_hashes, hash_errors,
          detailed, summary, i, report, rk_ext, rk_bitrate, rk_result>>

None == <<>>

Some(x) == <<x>>

\* ------------------------------------------------------------------ strings

UpperChars == <<"A","B","C","D","E","F","G","H","I","J","K","L","M",
                "N","O","P","Q","R","S","T","U","V","W","X","Y","Z">>

LowerChars == <<"a","b","c","d","e","f","g","h","i","j","k","l","m",
                "n","o","p","q","r","s","t","u","v","w","x","y","z">>

lower_char(c) ==
    IF \E k \in 1..26 : UpperChars[k] = c
    THEN LowerChars[CHOOSE k \in 1..26 : UpperChars[k] = c]
    ELSE c

\* str.lower()
lower(s) == [k \in 1..Len(s) |-> lower_char(s[k])]

\* str.startswith(prefix)
startswith(s, prefix) ==
    /\ Len(prefix) <= Len(s)
    /\ SubSeq(s, 1, Len(prefix)) = prefix

\* str.endswith(suffix)
endswith(s, suffix) ==
    /\ Len(suffix) <= Len(s)
    /\ SubSeq(s, Len(s) - Len(suffix) + 1, Len(s)) = suffix

\* ------------------------------------------------------------------ pathlib

RECURSIVE split_slash(_, _, _)
split_slash(s, cur, acc) ==
    IF s = <<>> THEN Append(acc, cur)
    ELSE IF Head(s) = "/" THEN split_slash(Tail(s), <<>>, Append(acc, cur))
    ELSE split_slash(Tail(s), Append(cur, Head(s)), acc)

\* The components pathlib keeps: empty ones and "." are dropped, ".." is kept.
path_parts(s) ==
    SelectSeq(split_slash(s, <<>>, <<>>), LAMBDA c : c # <<>> /\ c # <<".">>)

RECURSIVE join_slash(_)
join_slash(parts) ==
    IF parts = <<>> THEN <<>>
    ELSE IF Len(parts) = 1 THEN parts[1]
    ELSE parts[1] \o <<"/">> \o join_slash(Tail(parts))

\* str(Path(s))
path_str(s) ==
    IF Len(s) > 0 /\ s[1] = "/" THEN <<"/">> \o join_slash(path_parts(s))
    ELSE IF path_parts(s) = <<>> THEN <<".">>
    ELSE join_slash(path_parts(s))

\* os.path.join(dirpath, name), as os.walk builds the sub-directory paths
os_path_join(dirpath, name) ==
    IF endswith(dirpath, <<"/">>) THEN dirpath \o name
    ELSE dirpath \o <<"/">> \o name

\* str(Path(dirpath) / fname)
path_join(dirpath, fname) == path_str(dirpath \o <<"/">> \o fname)

\* Path(f).name
path_name(f) ==
    IF path_parts(f) = <<>> THEN <<>> ELSE path_parts(f)[Len(path_parts(f))]

\* str.rfind("."), 1-based; 0 when there is no dot
rfind_dot(name) ==
    IF \E k \in 1..Len(name) : name[k] = "."
    THEN CHOOSE k \in 1..Len(name) :
            /\ name[k] = "."
            /\ \A j \in (k+1)..Len(name) : name[j] # "."
    ELSE 0

\* Path(f).suffix: from the last dot of the name, unless the dot is the
\* first or the last character
path_suffix(f) ==
    LET name == path_name(f)
        d == rfind_dot(name)
    IN  IF d > 1 /\ d < Len(name) THEN SubSeq(name, d, Len(name)) ELSE <<>>

AUDIO_EXT == { <<".","w","a","v">>, <<".","a","i","f">>, <<".","a","i","f","f">>,
               <<".","f","l","a","c">>, <<".","m","4","a">>, <<".","a","a","c">>,
               <<".","m","p","3">> }

\* ------------------------------------------------------------------ file system under test

n_m == <<"m">>

n_dot_m == <<".","/","m">>

n_m_slash == <<"m","/">>

n_m2 == <<"m","2">>

n_m_s == <<"m","/","s">>

n_x == <<"x">>

\* What MutagenFile does on a file: open is "raises", "none" (it returns None)
\* or "ok" (an object whose info may lack bitrate, in bits/s, or length, in ms).
Tag(open, bitrate, length) == [open |-> open, bitrate |-> bitrate, length |-> length]

TagStates ==
    { Tag("raises", None, None),
      Tag("none", None, None),
      Tag("ok", None, None),
      Tag("ok", None, Some(1234)),
      Tag("ok", Some(191500), None),
      Tag("ok", Some(320000), Some(61238)),
      Tag("ok", Some(128000), Some(0)) }

\* What open()/read() does on a file when it is hashed.
ReadStates == {"ok", "missing", "perm", "io"}

Contents == {"X", "Y", "Z"}

File(name, kind, size, access, read, content, tag) ==
    [name |-> name, kind |-> kind, size |-> size, access |-> access,
     read |-> read, content |-> content, tag |-> tag]

Dir(name, dirs, files) == [name |-> name, kind |-> "dir", dirs |-> dirs, files |-> files]

NoNode == [kind |-> "absent"]

\* The current directory: m (with a hidden, a localized and a plain
\* sub-directory) and m2, whose name has m as a string prefix.
TreeOf(v) ==
    Dir(<<>>,
      << Dir(n_m,
           << Dir(<<".","h">>, <<>>,
                << File(<<"h",".","m","p","3">>, "file", 5, "ok", "ok", "W",
                        Tag("none", None, None)) >>),
              Dir(<<"V",".","L","o","c","a","l","i","z","e","d">>, <<>>,
                << File(<<"l",".","w","a","v">>, "file", 5, "ok", "ok", "W",
                        Tag("none", None, None)) >>),
              Dir(<<"s">>, <<>>,
                << File(<<"d",".","w","a","v">>, "file", 5, "ok", v.readD, "Y",
                        Tag("none", None, None)),
                   File(<<"q",".","m","4","a">>, "file", 5, "raises", "perm", "W",
                        Tag("none", None, None)) >>) >>,
           << File(<<"a",".","f","l","a","c">>, "file", 9, "ok", "ok", "X",
                   Tag("ok", Some(900000), Some(2000))),
              File(<<"B",".","M","P","3">>, "file", 9, "ok", "ok", "X",
                   Tag("ok", Some(256000), Some(2000))),
              File(<<".","_","r",".","m","p","3">>, "file", 4, "ok", "ok", "W",
                   Tag("none", None, None)),
              File(<<"n",".","t","x","t">>, "file", 4, "ok", "ok", "W",
                   Tag("none", None, None)),
              File(<<"z",".","m","p","3">>, "file", 0, "ok", "ok", "W",
                   Tag("none", None, None)),
              File(<<"k",".","m","p","3">>, "file", 4, "raises", "perm", "W",
                   Tag("none", None, None)),
              File(<<"p",".","a","a","c">>, "fifo", 4, "ok", "io", "W",
                   Tag("none", None, None)) >>),
         Dir(n_m2, <<>>,
           << File(<<"e",".","m","p","3">>, "file", 7, "ok", "ok", v.contentE,
                   v.tagE) >>) >>,
      <<>>)

Tree == TreeOf(fs)

RECURSIVE find_dir(_, _)
find_dir(node, comps) ==
    IF comps = <<>> THEN node
    ELSE LET ds == SelectSeq(node.dirs, LAMBDA d : d.name = comps[1])
         IN  IF ds = <<>> THEN NoNode ELSE find_dir(ds[1], Tail(comps))

\* The directory a path names, NoNode when there is none.
dir_at(path) == find_dir(Tree, path_parts(path))

\* The non-directory entry a path names, NoNode when there is none.
file_at(path) ==
    LET comps == path_parts(path)
    IN  IF comps = <<>> THEN NoNode
        ELSE LET d == find_dir(Tree, SubSeq(comps, 1, Len(comps) - 1))
                 fsel == IF d.kind = "dir"
                         THEN SelectSeq(d.files, LAMBDA f : f.name = comps[Len(comps)])
                         ELSE <<>>
             IN  IF fsel = <<>> THEN NoNode ELSE fsel[1]

\* Path.exists()
path_exists(path) == dir_at(path).kind = "dir" \/ file_at(path).kind # "absent"

\* ------------------------------------------------------------------ functions of the program

\* round(x / 1000) for an integer x >= 0: Python rounds a half to even
round_div_1000(x) ==
    LET q == x \div 1000
        r == x % 1000
    IN  IF r > 500 THEN q + 1
        ELSE IF r < 500 THEN q
        ELSE IF q % 2 = 0 THEN q ELSE q + 1

\* round(duration, 2) of a duration given in ms, in hundredths of a second
round_2(ms) ==
    LET q == ms \div 10
        r == ms % 10
    IN  IF r > 5 THEN q + 1
        ELSE IF r < 5 THEN q
        ELSE IF q % 2 = 0 THEN q ELSE q + 1

\* Mutant: no "is not None" guard: round(None / 1000) raises TypeError, which
\* the except clause turns into (None, None)
get_bitrate_and_duration_unguarded(path) ==
    LET t == file_at(path).tag
    IN  IF file_at(path).kind = "absent" THEN <<None, None>>
        ELSE IF t.open = "raises" THEN <<None, None>>
        ELSE IF t.open = "none" THEN <<None, None>>
        ELSE IF t.bitrate = None THEN <<None, None>>
        ELSE <<Some(round_div_1000(t.bitrate[1])), t.length>>

\* get_bitrate_and_duration(path): <<bitrate, duration>>.  Every exception
\* of the body is caught and gives (None, None).
get_bitrate_and_duration(path) ==
    LET t == file_at(path).tag
    IN  IF file_at(path).kind = "absent" THEN <<None, None>>
        ELSE IF t.open = "raises" THEN <<None, None>>
        ELSE IF t.open = "none" THEN <<None, None>>
        ELSE << IF t.bitrate # None THEN Some(round_div_1000(t.bitrate[1])) ELSE None,
                t.length >>

\* The exception open()/read() raises, by what the file does when read.
read_exception(read) ==
    CASE read = "missing" -> "FileNotFoundError"
      [] read = "perm" -> "PermissionError"
      [] OTHER -> "OSError"

\* Mutant: except (FileNotFoundError, PermissionError) only
hash_file_catches_narrow(exc) == exc \in {"FileNotFoundError", "PermissionError"}

\* except (FileNotFoundError, PermissionError, OSError)
hash_file_catches(exc) == exc \in {"FileNotFoundError", "PermissionError", "OSError"}

\* hashlib.sha1 over the file's bytes: one digest per content
sha1_hexdigest(content) == <<"sha1", content>>

\* hash_file(path): what the call does: it returns value (a digest or None),
\* or raises.
hash_file(path) ==
    LET f == file_at(path)
        exc == IF f.kind = "absent" THEN "FileNotFoundError" ELSE read_exception(f.read)
    IN  IF f.kind # "absent" /\ f.read = "ok"
        THEN [raised |-> FALSE, value |-> sha1_hexdigest(f.content)]
        ELSE IF hash_file_catches(exc) THEN [raised |-> FALSE, value |-> None]
        ELSE [raised |-> TRUE, value |-> None]

EXT_WAV == <<".","w","a","v">>

EXT_AIF == <<".","a","i","f">>

EXT_AIFF == <<".","a","i","f","f">>

EXT_FLAC == <<".","f","l","a","c">>

EXT_MP3 == <<".","m","p","3">>

\* Mutant: the 320 threshold compared with > instead of >=
compute_quality_rank_gt(ext, bitrate) ==
    IF ext \in {EXT_WAV, EXT_AIF, EXT_AIFF} THEN 1
    ELSE IF ext = EXT_FLAC THEN 2
    ELSE IF bitrate = None THEN 9999
    ELSE IF bitrate[1] > 320 THEN 3
    ELSE IF bitrate[1] >= 256 THEN 4
    ELSE IF bitrate[1] >= 192 THEN 5
    ELSE 6

compute_quality_rank(ext, bitrate) ==
    IF ext \in {EXT_WAV, EXT_AIF, EXT_AIFF} THEN 1
    ELSE IF ext = EXT_FLAC THEN 2
    ELSE IF bitrate = None THEN 9999
    ELSE IF bitrate[1] >= 320 THEN 3
    ELSE IF bitrate[1] >= 256 THEN 4
    ELSE IF bitrate[1] >= 192 THEN 5
    ELSE 6

\* ------------------------------------------------------------------ scan_folder

NotFound(root_path) == <<"Path not found", root_path>>

CannotAccess(p) == <<"Cannot access", p>>

\* Mutant: the .localized test without .lower()
keep_dir_case_sensitive(d) ==
    /\ ~ endswith(d.name, <<".","l","o","c","a","l","i","z","e","d">>)
    /\ ~ startswith(d.name, <<".">>)

\* The directories os.walk descends into: dirnames[:] = [...]
keep_dir(d) ==
    /\ ~ endswith(lower(d.name), <<".","l","o","c","a","l","i","z","e","d">>)
    /\ ~ startswith(d.name, <<".">>)

\* One file name of the inner loop, acc = [report, errors]
scan_file(dirpath, f, acc) ==
    LET p == path_join(dirpath, f.name)
    IN  IF startswith(f.name, <<".","_">>) THEN acc
        ELSE IF lower(path_suffix(p)) \notin AUDIO_EXT THEN acc
        ELSE IF f.access = "raises"
             THEN [acc EXCEPT !.errors = Append(@, CannotAccess(p))]
        ELSE IF f.kind = "file" /\ f.size > 0
             THEN [acc EXCEPT !.report = Append(@, p)]
        ELSE acc

RECURSIVE scan_files(_, _, _)
scan_files(dirpath, files, acc) ==
    IF files = <<>> THEN acc
    ELSE scan_files(dirpath, Tail(files), scan_file(dirpath, Head(files), acc))

\* os.walk, top-down: the directory's own files, then each kept sub-directory
RECURSIVE walk(_, _, _)
walk(dirpath, node, acc) ==
    LET kept == SelectSeq(node.dirs, keep_dir)
        own == scan_files(dirpath, node.files, acc)
        sub[k \in 0..Len(kept)] ==
            IF k = 0 THEN own
            ELSE walk(os_path_join(dirpath, kept[k].name), kept[k], sub[k - 1])
    IN  sub[Len(kept)]

\* Mutant: a missing root returns without recording the error
scan_folder_silent(root_path, rep, errs) ==
    IF ~ path_exists(root_path)
    THEN [report |-> rep, errors |-> errs]
    ELSE IF dir_at(root_path).kind # "dir" THEN [report |-> rep, errors |-> errs]
    ELSE walk(path_str(root_path), dir_at(root_path), [report |-> rep, errors |-> errs])

\* scan_folder(root_path, report, errors): the two lists after the call
scan_folder(root_path, rep, errs) ==
    IF ~ path_exists(root_path)
    THEN [report |-> rep, errors |-> Append(errs, NotFound(root_path))]
    ELSE IF dir_at(root_path).kind # "dir" THEN [report |-> rep, errors |-> errs]
    ELSE walk(path_str(root_path), dir_at(root_path), [report |-> rep, errors |-> errs])

\* ------------------------------------------------------------------ main

master == argv[1]

musik == IF Len(argv) > 1 THEN argv[2] ELSE None

evo == IF Len(argv) > 2 THEN argv[3] ELSE None

EmptyDict == [k \in {} |-> 0]

\* d[k] = v
dict_put(d, k, v) == [x \in DOMAIN d \cup {k} |-> IF x = k THEN v ELSE d[x]]

\* Mutant: summary[ext] = 1 instead of += 1
summary_add_overwrite(d, ext) == dict_put(d, ext, 1)

\* summary.setdefault(ext, 0); summary[ext] += 1
summary_add(d, ext) ==
    LET d0 == IF ext \in DOMAIN d THEN d ELSE dict_put(d, ext, 0)
    IN  [d0 EXCEPT ![ext] = @ + 1]

\* len([r for r in detailed if pred(r)])
RECURSIVE count_in_master(_, _)
count_in_master(rows, flag) ==
    IF rows = <<>> THEN 0
    ELSE (IF Head(rows).in_master = flag THEN 1 ELSE 0) + count_in_master(Tail(rows), flag)

\* The entry appended for file f with digest h
make_entry(f, h, index) ==
    LET meta == get_bitrate_and_duration(f)
        bitrate == meta[1]
        duration == meta[2]
        in_master == h \in DOMAIN index
        ext == lower(path_suffix(f))
    IN  [source_path |-> f,
         filename |-> path_name(f),
         format |-> ext,
         bitrate_kbps |-> bitrate,
         duration_sec |-> IF duration # None /\ duration[1] # 0
                          THEN Some(round_2(duration[1])) ELSE None,
         hash |-> h,
         in_master |-> in_master,
         quality_rank |-> compute_quality_rank(ext, bitrate),
         recommended_action |-> IF in_master THEN "EXISTS_IN_MASTER" ELSE "NEW_IN_MASTER"]

NoReport == [written |-> FALSE]

MasterArgs == {n_m, n_dot_m, n_m_slash, n_x}

MusikArgs == {n_m2, n_m, n_m_s, n_x}

EvoArgs == {n_m2, n_x}

Argvs ==
    {<<>>} \cup {<<a>> : a \in MasterArgs}
           \cup {<<a, b>> : a \in MasterArgs, b \in MusikArgs}
           \cup {<<a, b, c>> : a \in MasterArgs, b \in MusikArgs, c \in EvoArgs}

\* The runs explored: every argument list with every read state and content,
\* and every tag state with the argument lists that reach m2/e.mp3.
Inputs ==
    (Argvs \X [readD : ReadStates, contentE : Contents,
               tagE : {Tag("ok", Some(320000), Some(61238))}])
    \cup ({<<n_m_slash, n_m2>>, <<n_m, n_m_s, n_m2>>}
            \X [readD : {"ok"}, contentE : Contents, tagE : TagStates])

Init ==
    /\ \E in \in Inputs : argv = in[1] /\ fs = in[2]
    /\ pc = "start"
    /\ all_files = <<>>
    /\ errors = <<>>
    /\ master_hashes = EmptyDict
    /\ hash_errors = <<>>
    /\ detailed = <<>>
    /\ summary = EmptyDict
    /\ i = 0
    /\ report = NoReport
    /\ rk_ext = <<>>
    /\ rk_bitrate = None
    /\ rk_result = None

rank_vars == <<rk_ext, rk_bitrate, rk_result>>

\* if len(sys.argv) < 2: usage, sys.exit(1)
Start ==
    /\ pc = "start"
    /\ pc' = IF Len(argv) < 1 THEN "exit_1" ELSE "scan_master"
    /\ UNCHANGED <<argv, fs, all_files, errors, master_hashes, hash_errors,
                   detailed, summary, i, report, rank_vars>>

ScanMaster ==
    /\ pc = "scan_master"
    /\ LET r == scan_folder(master, all_files, errors)
       IN  /\ all_files' = r.report
           /\ errors' = r.errors
    /\ pc' = "scan_musik"
    /\ UNCHANGED <<argv, fs, master_hashes, hash_errors, detailed, summary, i,
                   report, rank_vars>>

\* if musik: scan_folder(musik, ...)
ScanMusik ==
    /\ pc = "scan_musik"
    /\ LET r == IF musik # <<>> THEN scan_folder(musik, all_files, errors)
                ELSE [report |-> all_files, errors |-> errors]
       IN  /\ all_files' = r.report
           /\ errors' = r.errors
    /\ pc' = "scan_evo"
    /\ UNCHANGED <<argv, fs, master_hashes, hash_errors, detailed, summary, i,
                   report, rank_vars>>

\* if evo: scan_folder(evo, ...); then the dicts and lists of the next stage
ScanEvo ==
    /\ pc = "scan_evo"
    /\ LET r == IF evo # <<>> THEN scan_folder(evo, all_files, errors)
                ELSE [report |-> all_files, errors |-> errors]
       IN  /\ all_files' = r.report
           /\ errors' = r.errors
    /\ pc' = "index"
    /\ i' = 1
    /\ UNCHANGED <<argv, fs, master_hashes, hash_errors, detailed, summary,
                   report, rank_vars>>

\* One iteration of: for f in all_files: if f.startswith(master): ...
IndexStep ==
    /\ pc = "index"
    /\ i <= Len(all_files)
    /\ LET f == all_files[i]
           r == hash_file(f)
       IN  IF ~ startswith(f, master)
           THEN /\ i' = i + 1
                /\ UNCHANGED <<pc, master_hashes>>
           ELSE IF r.raised
           THEN /\ pc' = "crashed"
                /\ UNCHANGED <<i, master_hashes>>
           ELSE /\ master_hashes' = IF r.value # None
                                    THEN dict_put(master_hashes, r.value, f)
                                    ELSE master_hashes
                /\ i' = i + 1
                /\ UNCHANGED pc
    /\ UNCHANGED <<argv, fs, all_files, errors, hash_errors, detailed, summary,
                   report, rank_vars>>

IndexDone ==
    /\ pc = "index"
    /\ i > Len(all_files)
    /\ pc' = "analyze"
    /\ i' = 1
    /\ UNCHANGED <<argv, fs, all_files, errors, master_hashes, hash_errors,
                   detailed, summary, report, rank_vars>>

\* Mutant: a single pass, the index filled while membership is tested
AnalyzeStep_interleaved ==
    /\ pc = "analyze"
    /\ i <= Len(all_files)
    /\ LET f == all_files[i]
           r == hash_file(f)
       IN  IF r.raised
           THEN /\ pc' = "crashed"
                /\ UNCHANGED <<i, hash_errors, detailed, summary, master_hashes>>
           ELSE IF r.value = None
           THEN /\ hash_errors' = Append(hash_errors, f)
                /\ i' = i + 1
                /\ UNCHANGED <<pc, detailed, summary, master_hashes>>
           ELSE LET entry == make_entry(f, r.value, master_hashes)
                IN  /\ detailed' = Append(detailed, entry)
                    /\ summary' = summary_add(summary, entry.format)
                    /\ master_hashes' = IF startswith(f, master)
                                        THEN dict_put(master_hashes, r.value, f)
                                        ELSE master_hashes
                    /\ i' = i + 1
                    /\ UNCHANGED <<pc, hash_errors>>
    /\ UNCHANGED <<argv, fs, all_files, errors, report, rank_vars>>

\* One iteration of the analysis loop
AnalyzeStep ==
    /\ pc = "analyze"
    /\ i <= Len(all_files)
    /\ LET f == all_files[i]
           r == hash_file(f)
       IN  IF r.raised
           THEN /\ pc' = "crashed"
                /\ UNCHANGED <<i, hash_errors, detailed, summary>>
           ELSE IF r.value = None
           THEN /\ hash_errors' = Append(hash_errors, f)
                /\ i' = i + 1
                /\ UNCHANGED <<pc, detailed, summary>>
           ELSE LET entry == make_entry(f, r.value, master_hashes)
                IN  /\ detailed' = Append(detailed, entry)
                    /\ summary' = summary_add(summary, entry.format)
                    /\ i' = i + 1
                    /\ UNCHANGED <<pc, hash_errors>>
    /\ UNCHANGED <<argv, fs, all_files, errors, master_hashes, report, rank_vars>>

AnalyzeDone ==
    /\ pc = "analyze"
    /\ i > Len(all_files)
    /\ pc' = "write"
    /\ UNCHANGED <<argv, fs, all_files, errors, master_hashes, hash_errors,
                   detailed, summary, i, report, rank_vars>>

\* report.json, report_detailed.csv, report_summary.txt and, when there are
\* errors, report_errors.txt.  The rows written are detailed, the error
\* lines are errors and hash_errors, none of which changes afterwards.
WriteReports ==
    /\ pc = "write"
    /\ report' = [written |-> TRUE,
                  master_path |-> master,
                  total_files |-> Len(detailed),
                  total_errors |-> Len(errors) + Len(hash_errors),
                  files_in_master |-> count_in_master(detailed, TRUE),
                  new_files |-> count_in_master(detailed, FALSE),
                  by_format |-> summary,
                  errors_file |-> (errors # <<>> \/ hash_errors # <<>>)]
    /\ pc' = "done"
    /\ UNCHANGED <<argv, fs, all_files, errors, master_hashes, hash_errors,
                   detailed, summary, i, rank_vars>>

Next ==
    \/ Start
    \/ ScanMaster
    \/ ScanMusik
    \/ ScanEvo
    \/ IndexStep
    \/ IndexDone
    \/ AnalyzeStep
    \/ AnalyzeDone
    \/ WriteReports

Spec == Init /\ [][Next]_vars

\* ------------------------------------------------------------------ compute_quality_rank on its own

MaxBitrate == 330

EXT_OGG == <<".","o","g","g">>

RankExts == AUDIO_EXT \cup {EXT_OGG, <<".","W","A","V">>, <<>>}

RankBitrates == {None} \cup {Some(b) : b \in 0..MaxBitrate}

RankInit ==
    /\ rk_ext \in RankExts
    /\ rk_bitrate \in RankBitrates
    /\ rk_result = None
    /\ argv = <<>>
    /\ fs = [readD |-> "ok", contentE |-> "X", tagE |-> Tag("none", None, None)]
    /\ pc = "rank"
    /\ all_files = <<>>
    /\ errors = <<>>
    /\ master_hashes = EmptyDict
    /\ hash_errors = <<>>
    /\ detailed = <<>>
    /\ summary = EmptyDict
    /\ i = 0
    /\ report = NoReport

RankCall ==
    /\ pc = "rank"
    /\ rk_result = None
    /\ rk_result' = Some(compute_quality_rank(rk_ext, rk_bitrate))
    /\ UNCHANGED <<argv, fs, pc, all_files, errors, master_hashes, hash_errors,
                   detailed, summary, i, report, rk_ext, rk_bitrate>>

RankNext == RankCall

RankSpec == RankInit /\ [][RankNext]_vars

\* ------------------------------------------------------------------ vocabulary of the properties

Range(s) == {s[k] : k \in 1..Len(s)}

Occurrences(s, x) == Cardinality({k \in 1..Len(s) : s[k] = x})

\* The names, kinds, sizes and access states of the tree, which no run varies
Shape == TreeOf([readD |-> "ok", contentE |-> "X", tagE |-> Tag("none", None, None)])

\* path names an entry of the directory tree below the directory root names
located_under(path, root) ==
    /\ root # <<>>
    /\ find_dir(Shape, path_parts(root)).kind = "dir"
    /\ Len(path_parts(root)) < Len(path_parts(path))
    /\ SubSeq(path_parts(path), 1, Len(path_parts(root))) = path_parts(root)

\* The names of the directories between root and the file path names
dirs_between(path, root) ==
    Range(SubSeq(path_parts(path), Len(path_parts(root)) + 1, Len(path_parts(path)) - 1))

hidden_or_localized(name) ==
    \/ name[1] = "."
    \/ /\ Len(name) >= 10
       /\ lower(SubSeq(name, Len(name) - 9, Len(name)))
            = <<".","l","o","c","a","l","i","z","e","d">>

\* A walk from root comes to the file at path
visits(root, path) ==
    /\ located_under(path, root)
    /\ \A d \in dirs_between(path, root) : ~ hidden_or_localized(d)

GivenRoots == {argv[k] : k \in 1..Len(argv)} \ {<<>>}

SecondaryRoots == {musik, evo} \ {<<>>}

ScanStages == {"scan_master", "scan_musik", "scan_evo"}

AfterScan == {"index", "analyze", "write", "done"}

\* Every non-directory entry of the tree with the components of its path
RECURSIVE tree_files(_, _)
tree_files(node, comps) ==
    {[parts |-> Append(comps, node.files[k].name), file |-> node.files[k]] :
        k \in 1..Len(node.files)}
    \cup UNION {tree_files(node.dirs[k], Append(comps, node.dirs[k].name)) :
                  k \in 1..Len(node.dirs)}

\* A file name the scan does not skip before the access check
audio_named(name) ==
    /\ SubSeq(name, 1, 2) # <<".","_">>
    /\ lower(path_suffix(name)) \in AUDIO_EXT

\* A file the scan is to report
accepted(f) ==
    /\ audio_named(f.name)
    /\ f.access = "ok"
    /\ f.kind = "file"
    /\ f.size > 0

\* Every non-directory entry of the tree, with its path string
ShapeFiles == {[path |-> join_slash(t.parts), file |-> t.file] : t \in tree_files(Shape, <<>>)}

\* The paths of the audio-named files whose access check raises
RaisingPaths ==
    {t.path : t \in {u \in ShapeFiles : u.file.access = "raises" /\ audio_named(u.file.name)}}

\* The paths of the files a scan is to report
AcceptedPaths == {t.path : t \in {u \in ShapeFiles : accepted(u.file)}}

\* The digests of the scanned files that lie under the master root
MasterFileHashes ==
    {hash_file(q).value : q \in {f \in Range(all_files) : located_under(f, master)}}
        \ {None}

\* The index a complete first pass over files leaves
index_of(files) ==
    LET S == {k \in 1..Len(files) :
                startswith(files[k], master) /\ hash_file(files[k]).value # None}
        last(h) == CHOOSE k \in S :
                     /\ hash_file(files[k]).value = h
                     /\ \A j \in S : hash_file(files[j]).value = h => j <= k
    IN  [h \in {hash_file(files[k]).value : k \in S} |-> files[last(h)]]

\* The file list after all the roots given are scanned
full_scan ==
    LET a == scan_folder(master, <<>>, <<>>)
        b == IF musik # <<>> THEN scan_folder(musik, a.report, a.errors) ELSE a
        c == IF evo # <<>> THEN scan_folder(evo, b.report, b.errors) ELSE b
    IN  c.report

current_root ==
    CASE pc = "scan_master" -> master
      [] pc = "scan_musik" -> musik
      [] pc = "scan_evo" -> evo

stage_after(stage) ==
    CASE stage = "scan_master" -> "scan_musik"
      [] stage = "scan_musik" -> "scan_evo"
      [] stage = "scan_evo" -> "index"

p_m_B_MP3 == <<"m","/","B",".","M","P","3">>

p_m_s_d_wav == <<"m","/","s","/","d",".","w","a","v">>

p_m_k_mp3 == <<"m","/","k",".","m","p","3">>

\* ------------------------------------------------------------------ C1

\* C1: compute_quality_rank(ext, bitrate) follows the fixed policy for every
\* extension and every bitrate, None included: .wav, .aif, .aiff give 1 and
\* .flac gives 2 whatever the bitrate; any other extension gives 9999 for a
\* None bitrate, 3 from 320 up, 4 from 256 to 319, 5 from 192 to 255 and 6
\* below 192.
C1_RankPolicy ==
    rk_result # None =>
        LET r == rk_result[1]
            lossy == rk_ext \notin {EXT_WAV, EXT_AIF, EXT_AIFF, EXT_FLAC}
            known == rk_bitrate # None
        IN  /\ rk_ext \in {EXT_WAV, EXT_AIF, EXT_AIFF} => r = 1
            /\ rk_ext = EXT_FLAC => r = 2
            /\ lossy /\ ~ known => r = 9999
            /\ lossy /\ known /\ rk_bitrate[1] >= 320 => r = 3
            /\ lossy /\ known /\ rk_bitrate[1] >= 256 /\ rk_bitrate[1] < 320 => r = 4
            /\ lossy /\ known /\ rk_bitrate[1] >= 192 /\ rk_bitrate[1] < 256 => r = 5
            /\ lossy /\ known /\ rk_bitrate[1] < 192 => r = 6

C1_Witness ==
    /\ rk_ext = EXT_MP3
    /\ rk_bitrate = Some(320)
    /\ rk_result = Some(3)

\* ------------------------------------------------------------------ C2

\* C2: whatever the form in which the master root is given, every record of
\* the report whose file lies under the master root has in_master = true and
\* recommended_action = EXISTS_IN_MASTER.
C2_MasterFilesInMaster ==
    pc = "done" =>
        \A k \in 1..Len(detailed) :
            located_under(detailed[k].source_path, master) =>
                /\ detailed[k].in_master
                /\ detailed[k].recommended_action = "EXISTS_IN_MASTER"

\* ------------------------------------------------------------------ C3

\* C3: every record of a file under a secondary root has in_master = true and
\* EXISTS_IN_MASTER exactly when some file under the master root has its
\* digest, in_master = false and NEW_IN_MASTER otherwise; and only files under
\* the master root contribute to the master index.
C3_SecondaryMembership ==
    pc = "done" =>
        /\ \A k \in 1..Len(detailed) :
              (\E r \in SecondaryRoots : located_under(detailed[k].source_path, r)) =>
                  /\ detailed[k].in_master = (detailed[k].hash \in MasterFileHashes)
                  /\ detailed[k].recommended_action =
                        IF detailed[k].hash \in MasterFileHashes
                        THEN "EXISTS_IN_MASTER" ELSE "NEW_IN_MASTER"
        /\ \A h \in DOMAIN master_hashes : located_under(master_hashes[h], master)

\* ------------------------------------------------------------------ C4

\* C4: the stages are strictly ordered: a loop iteration that hashes runs
\* only on the complete file list, which no longer changes; a scan runs only
\* before any loop has started; a membership test sees the index a complete
\* first pass leaves, and the index changes only before the first file is
\* analysed.
C4_StagesOrdered ==
    [][ /\ (pc \in {"index", "analyze"} /\ i' = i + 1) =>
              (all_files = full_scan /\ all_files' = all_files)
        /\ (all_files' # all_files \/ errors' # errors) =>
              (i = 0 /\ master_hashes = EmptyDict /\ detailed = <<>> /\ hash_errors = <<>>)
        /\ (detailed' # detailed \/ hash_errors' # hash_errors) =>
              (master_hashes = index_of(all_files) /\ master_hashes' = master_hashes)
        /\ (master_hashes' # master_hashes) =>
              (pc = "index" /\ detailed = <<>> /\ hash_errors = <<>>)
      ]_vars

C4_Witness ==
    /\ pc = "analyze"
    /\ Len(argv) = 3
    /\ Len(detailed) >= 2
    /\ Cardinality(DOMAIN master_hashes) >= 2

\* ------------------------------------------------------------------ C5

RootsAccounted ==
    pc \in AfterScan =>
        /\ \A r \in GivenRoots :
              Occurrences(errors, NotFound(r)) =
                  IF path_exists(r) THEN 0
                  ELSE Cardinality({k \in 1..Len(argv) : argv[k] = r})
        /\ \A r \in GivenRoots : \A p \in AcceptedPaths :
              visits(r, p) => p \in Range(all_files)

\* C6: scanning a root that does not exist adds no file path, appends exactly
\* one scan error for it and moves on to the next stage; the roots that exist
\* are scanned all the same, and the run does not stop before the reports are
\* written.
C6_MissingRoot ==
    [][ /\ (pc \in ScanStages /\ current_root # <<>> /\ ~ path_exists(current_root)) =>
              /\ all_files' = all_files
              /\ errors' = Append(errors, NotFound(current_root))
              /\ pc' = stage_after(pc)
        /\ pc' # "crashed"
        /\ RootsAccounted'
        /\ (pc = "write") => (pc' = "done" /\ report'.written
                                /\ report'.total_files = Len(detailed))
      ]_vars

C6_Witness ==
    /\ pc = "done"
    /\ report.written
    /\ argv = <<n_x, n_m2>>
    /\ errors = <<NotFound(n_x)>>
    /\ Len(detailed) = 1

\* ------------------------------------------------------------------ C7

\* The tag state of the file a record is about
tag_of(row) == file_at(row.source_path).tag

\* Every file of the list that hashes has a record once the analysis is over
AllAnalyzed ==
    pc \in {"write", "done"} =>
        \A f \in Range(all_files) :
            hash_file(f).value # None =>
                \E k \in 1..Len(detailed) : detailed[k].source_path = f

\* C7 as stated: get_bitrate_and_duration returns (None, None) whenever the
\* tag reader fails, returns no object, or the bitrate or the duration field
\* is absent; it never raises, and the file is still reported, with null
\* bitrate and duration.
C7_NoneWhenEitherAbsent ==
    /\ pc # "crashed"
    /\ AllAnalyzed
    /\ \A k \in 1..Len(detailed) :
          (\/ tag_of(detailed[k]).open \in {"raises", "none"}
           \/ tag_of(detailed[k]).bitrate = None
           \/ tag_of(detailed[k]).length = None) =>
              /\ get_bitrate_and_duration(detailed[k].source_path) = <<None, None>>
              /\ detailed[k].bitrate_kbps = None
              /\ detailed[k].duration_sec = None

\* C7 amended: (None, None) when the tag reader fails, returns no object, or
\* both fields are absent; when only one field is absent only that component
\* is None, and the other is still returned and reported; never raises, and
\* the file is still reported.
C7_NonePerAbsentField ==
    /\ pc # "crashed"
    /\ AllAnalyzed
    /\ \A k \in 1..Len(detailed) :
          LET t == tag_of(detailed[k])
              got == get_bitrate_and_duration(detailed[k].source_path)
          IN  /\ (\/ t.open \in {"raises", "none"}
                  \/ (t.bitrate = None /\ t.length = None)) =>
                     /\ got = <<None, None>>
                     /\ detailed[k].bitrate_kbps = None
                     /\ detailed[k].duration_sec = None
              /\ (t.open = "ok" /\ t.bitrate = None) =>
                     /\ got = <<None, t.length>>
                     /\ detailed[k].bitrate_kbps = None
                     /\ (t.length # None /\ t.length[1] # 0) => detailed[k].duration_sec # None
              /\ (t.open = "ok" /\ t.length = None) =>
                     /\ got[2] = None
                     /\ detailed[k].duration_sec = None
                     /\ (t.bitrate # None) =>
                            /\ got[1] # None
                            /\ detailed[k].bitrate_kbps = got[1]

C7_Witness ==
    /\ pc = "done"
    /\ \E k \in 1..Len(detailed) :
          /\ tag_of(detailed[k]) = Tag("ok", None, Some(1234))
          /\ detailed[k].bitrate_kbps = None
          /\ detailed[k].duration_sec = Some(123)
          /\ detailed[k].quality_rank = 9999
    /\ fs.tagE = Tag("ok", None, Some(1234))

\* ------------------------------------------------------------------ C8

\* C8: every path in the file list names a regular file of size > 0 whose
\* name does not begin with "._" and whose lowercased extension is an audio
\* extension, reached from a root given with no hidden and no .localized
\* directory in between; a file whose access check raises is not in the list
\* and gives one scan error per walk that comes to it.
C8_ScanFilter ==
    /\ \A p \in Range(all_files) :
          /\ file_at(p).kind = "file"
          /\ file_at(p).size > 0
          /\ file_at(p).access = "ok"
          /\ SubSeq(path_name(p), 1, 2) # <<".","_">>
          /\ lower(path_suffix(p)) \in AUDIO_EXT
          /\ \E r \in GivenRoots : visits(r, p)
    /\ \A e \in Range(errors) :
          e[1] = "Cannot access" =>
              /\ e[2] \in RaisingPaths
              /\ e[2] \notin Range(all_files)
    /\ pc \in AfterScan =>
          \A q \in RaisingPaths :
              Occurrences(errors, CannotAccess(q)) =
                  Cardinality({k \in 1..Len(argv) : visits(argv[k], q)})

C8_Witness ==
    /\ pc = "index"
    /\ p_m_B_MP3 \in Range(all_files)
    /\ p_m_s_d_wav \in Range(all_files)
    /\ Occurrences(errors, CannotAccess(p_m_k_mp3)) = 1
    /\ Len(errors) = 2

\* ------------------------------------------------------------------ C9

RECURSIVE dict_sum(_, _)
dict_sum(d, keys) ==
    IF keys = {} THEN 0
    ELSE LET k == CHOOSE x \in keys : TRUE
         IN  d[k] + dict_sum(d, keys \ {k})

\* C9: in the reports, the count of every format is the number of records of
\* that format, the counts add up to the total number of records, and the
\* "in master" and "new" counts add up to that total too.
C9_SummaryCounts ==
    pc = "done" =>
        /\ DOMAIN report.by_format = {detailed[k].format : k \in 1..Len(detailed)}
        /\ \A fmt \in DOMAIN report.by_format :
              report.by_format[fmt] =
                  Cardinality({k \in 1..Len(detailed) : detailed[k].format = fmt})
        /\ dict_sum(report.by_format, DOMAIN report.by_format) = report.total_files
        /\ report.total_files = Len(detailed)
        /\ report.files_in_master + report.new_files = report.total_files

C9_Witness ==
    /\ pc = "done"
    /\ \E fmt \in DOMAIN report.by_format : report.by_format[fmt] >= 2
    /\ Cardinality(DOMAIN report.by_format) >= 3
    /\ report.files_in_master >= 1
    /\ report.new_files >= 1

\* ------------------------------------------------------------------ C10

\* C10: whatever the roots given, a secondary root equal to, inside or around
\* the master root included, no file path has two records in the report or
\* two entries in the hash-error list.
C10_NoPathTwice ==
    pc = "done" =>
        /\ \A j, k \in 1..Len(detailed) :
              detailed[j].source_path = detailed[k].source_path => j = k
        /\ \A j, k \in 1..Len(hash_errors) :
              hash_errors[j] = hash_errors[k] => j = k

====
